---------------------------- MODULE Spec2Model ----------------------------
(***************************************************************************)
(* A model of the finite-state-machine runner of src/fsm.go: the machine   *)
(* (start, step, dotFile, adjacencyMap), its operations Run and            *)
(* LogStateTransitionGraph, the run loop, the transition recorder and the  *)
(* DOT graph exporter.                                                     *)
(*                                                                         *)
(* A State function value is modelled by the symbol name the Go runtime    *)
(* reports for it, as a sequence of tokens in which "/" and "." are the    *)
(* separators; the nil State is the empty sequence.  What a State function *)
(* returns is up to the caller, so every invocation returns any            *)
(* (next State, error) pair.  Every write to the dot file may fail.        *)
(***************************************************************************)
EXTENDS Integers, Sequences, FiniteSets, TLC

\* ------------------------------------------------------------------ bounds
\* State function invocations over the life of the machine.
MaxCalls == 2
\* Calls of Run over the life of the machine.
MaxRuns == 2
\* Transitions of the histories that are rendered twice (SpecRender).
MaxHist == 3

\* Calls of Run in the behaviours checked for progress.
MaxFairRuns == 1

\* State function invocations of the goroutines that call Run concurrently,
\* all together.
MaxRaceCalls == 1

\* --------------------------------------------------------------- constants
startID == "start"
endID == "end"
dotFileName == "dot_graph"
dotFileExtension == "gv"
stepFontSize == 10
\* The DOT text, as token sequences: a write appends tokens to the file.
dotFileHeader ==
    << "\nstrict digraph stategraph {\n",
       "\tstart [shape=\"circle\", color=\"green\", style=\"filled\"]\n",
       "\tend [shape=\"circle\", color=\"red\", style=\"filled\"]\n" >>
dotFileFooter == << "}" >>

\* The nil State / nil error / nil *os.File.
NilState == << >>
NoErr == "nil"
NilFile == << >>

\* The State functions the caller has: runtime symbol names.
StateA == << "example", "/", "main", ".", "A" >>
StateB == << "github.com", "/", "x", "/", "ghost", ".", "B" >>
States == { StateA, StateB }

\* The error values State functions return.
HandlerErrors == { "e1", "e2" }
\* errors.New("start must not be nil")
ErrStartNil == "start must not be nil"
\* The error of a failed os.File.Write / os.Create.
ErrWrite == "write failed"
ErrCreate == "create failed"

\* The paths the caller passes to LogStateTransitionGraph.
Paths == { << >>, << ".", "/" >> }

VARIABLES
    start,          \* fsm.start
    step,           \* fsm.step
    dotFile,        \* fsm.dotFile: NilFile or the path of the open file
    adjacencyMap,   \* fsm.adjacencyMap: vertex -> edge -> steps
    sink,           \* what the file behind dotFile holds past the offset it had
                    \* when the current Run was called (nothing reads the file)
    pc,             \* where the current Run is: idle, loop, header, edges, footer
    currentState,   \* run(): currentState
    nextState,      \* run(): nextState
    err,            \* run(): err, then Run(): err
    curVertex,      \* adjacencyMapToDotGraph: the vertex of the outer range
    visited,        \* adjacencyMapToDotGraph: the (vertex, edge) pairs ranged over
    lastCall,       \* the API call that returned last
    ret,            \* what it returned
    calls,          \* the State functions invoked by the current Run, with results
    runs,           \* number of Run calls so far
    renderErr,      \* Run(): the inner err, of adjacencyMapToDotGraph
    startArg,       \* Run(): the startState argument of the current Run
    invoked,        \* number of State function invocations so far
    stepAtStart,    \* fsm.step when the current Run was called
    twin,           \* a second machine, which never traces, given the same
                    \* Run calls and the same results of the State functions
    goroutines,     \* the locals of the goroutines that call Run concurrently
    heap            \* the inner maps of fsm.adjacencyMap as objects (SpecRace)

vars == << start, step, dotFile, adjacencyMap, sink, pc, currentState, nextState,
           err, curVertex, visited, lastCall, ret, calls, runs,
           renderErr, startArg, invoked, stepAtStart, twin, goroutines, heap >>

\* The variables that only the specifications of two machines (SpecTwin) and
\* of concurrent use (SpecRace) follow.
others == << twin, goroutines, heap >>

\* ----------------------------------------------------------------- helpers
EmptyMap == [x \in {} |-> << >>]

MapPut(m, k, v) == [x \in (DOMAIN m) \cup {k} |-> IF x = k THEN v ELSE m[x]]

\* strings.Split(s, sep) on a token sequence: the pieces between separators.
RECURSIVE Split(_, _)
Split(s, sep) ==
    IF \A i \in 1..Len(s) : s[i] # sep
    THEN << s >>
    ELSE LET i == CHOOSE j \in 1..Len(s) :
                     s[j] = sep /\ \A k \in 1..(j - 1) : s[k] # sep
         IN << SubSeq(s, 1, i - 1) >> \o Split(SubSeq(s, i + 1, Len(s)), sep)

\* The text of a piece that holds one token.
Text(piece) == IF Len(piece) = 1 THEN piece[1] ELSE ""

\* getFunctionName: the name of a State function, package stripped.
getFunctionName(f) ==
    IF f = NilState
    THEN endID
    ELSE LET funcSegments == Split(f, "/")
             funcName == funcSegments[Len(funcSegments)]
         IN Text(Split(funcName, ".")[2])

\* Mutant of isTracing: the recorder without the tracing check.
isTracingAlways(file) == TRUE

\* isTracing
isTracing(file) == file # NilFile

\* Mutant of recordStateTransition: the step is appended before it is increased.
recordStateTransitionStale(file, s, m, curr, next) ==
    IF file = NilFile
    THEN [step |-> s, adjacencyMap |-> m]
    ELSE LET m1 == IF curr \in DOMAIN m THEN m ELSE MapPut(m, curr, EmptyMap)
             e1 == IF next \in DOMAIN m1[curr] THEN m1[curr]
                   ELSE MapPut(m1[curr], next, << >>)
         IN [step |-> s + 1,
             adjacencyMap |-> MapPut(m1, curr, MapPut(e1, next, Append(e1[next], s)))]

\* Mutant of recordStateTransition: the destination gets a vertex entry too.
recordStateTransitionAddsDest(file, s, m, curr, next) ==
    IF file = NilFile
    THEN [step |-> s, adjacencyMap |-> m]
    ELSE LET m0 == IF next \in DOMAIN m THEN m ELSE MapPut(m, next, EmptyMap)
             m1 == IF curr \in DOMAIN m0 THEN m0 ELSE MapPut(m0, curr, EmptyMap)
             e1 == IF next \in DOMAIN m1[curr] THEN m1[curr]
                   ELSE MapPut(m1[curr], next, << >>)
         IN [step |-> s + 1,
             adjacencyMap |->
                 MapPut(m1, curr, MapPut(e1, next, Append(e1[next], s + 1)))]

\* Mutant of recordStateTransition: the step replaces the steps of the edge.
recordStateTransitionOverwrite(file, s, m, curr, next) ==
    IF file = NilFile
    THEN [step |-> s, adjacencyMap |-> m]
    ELSE LET m1 == IF curr \in DOMAIN m THEN m ELSE MapPut(m, curr, EmptyMap)
         IN [step |-> s + 1,
             adjacencyMap |-> MapPut(m1, curr, MapPut(m1[curr], next, << s + 1 >>))]

\* Mutant of recordStateTransition: the transition into "end" is not recorded.
recordStateTransitionNoEnd(file, s, m, curr, next) ==
    IF file = NilFile \/ next = endID
    THEN [step |-> s, adjacencyMap |-> m]
    ELSE LET m1 == IF curr \in DOMAIN m THEN m ELSE MapPut(m, curr, EmptyMap)
             e1 == IF next \in DOMAIN m1[curr] THEN m1[curr]
                   ELSE MapPut(m1[curr], next, << >>)
         IN [step |-> s + 1,
             adjacencyMap |->
                 MapPut(m1, curr, MapPut(e1, next, Append(e1[next], s + 1)))]

\* recordStateTransition on (fsm.step, fsm.adjacencyMap): the new pair.
recordStateTransition(file, s, m, curr, next) ==
    IF ~isTracing(file)
    THEN [step |-> s, adjacencyMap |-> m]
    ELSE LET s1 == s + 1
             m1 == IF curr \in DOMAIN m THEN m ELSE MapPut(m, curr, EmptyMap)
             edgeMap == m1[curr]
             e1 == IF next \in DOMAIN edgeMap THEN edgeMap
                   ELSE MapPut(edgeMap, next, << >>)
             edgeSteps == e1[next]
         IN [step |-> s1,
             adjacencyMap |->
                 MapPut(m1, curr, MapPut(e1, next, Append(edgeSteps, s1)))]

\* strconv.FormatInt(n, 10) for n >= 0: the decimal digits.
Digit(d) == << "0", "1", "2", "3", "4", "5", "6", "7", "8", "9" >>[d + 1]

RECURSIVE FormatInt(_)
FormatInt(n) ==
    IF n < 10 THEN << Digit(n) >> ELSE FormatInt(n \div 10) \o << Digit(n % 10) >>

\* The stepBuf loop: every step followed by a comma.
RECURSIVE StepBuf(_)
StepBuf(steps) ==
    IF steps = << >> THEN << >>
    ELSE FormatInt(Head(steps)) \o << "," >> \o StepBuf(Tail(steps))

\* Mutant of TrimSuffix: nothing is trimmed.
TrimSuffixNone(s, suffix) == s

\* strings.TrimSuffix(s, ",")
TrimSuffix(s, suffix) ==
    IF Len(s) > 0 /\ s[Len(s)] = suffix THEN SubSeq(s, 1, Len(s) - 1) ELSE s

\* joinInt (the template renderer): the stepBuf loop with a delimiter.
RECURSIVE joinIntBuf(_, _)
joinIntBuf(steps, delimiter) ==
    IF steps = << >> THEN << >>
    ELSE FormatInt(Head(steps)) \o << delimiter >> \o joinIntBuf(Tail(steps), delimiter)

\* joinInt: the steps joined by the delimiter.
joinInt(steps, delimiter) == TrimSuffix(joinIntBuf(steps, delimiter), delimiter)

\* fmt.Sprintf(edgeFmtStr, vertex, edge, stepLabel, stepFontSize) with
\* edgeFmtStr = "\t%s -> %s [label=\" %s\",fontsize=%d]\n"
edgeFmtStr(vertex, edge, stepLabel, fontSize) ==
    << "\t", vertex, " -> ", edge, " [label=\" " >> \o stepLabel
        \o << "\",fontsize=" >> \o FormatInt(fontSize) \o << "]\n" >>

\* The string adjacencyMapToDotGraph writes for one edge.
stateGraphString(vertex, edge, steps) ==
    edgeFmtStr(vertex, edge, TrimSuffix(StepBuf(steps), ","), stepFontSize)

\* The (vertex, edge) pairs of a history.
Edges(m) == UNION { { << v, e >> : e \in DOMAIN m[v] } : v \in DOMAIN m }

\* What one os.File.Write does: all of the bytes, or an error after none or
\* some of them.
WriteOutcomes == { "ok", "none", "partial" }

\* Mutant of writeStateGraphString: a failed write empties the file.
writeStateGraphStringRollback(file, snk, str, outcome) ==
    IF file # NilFile
    THEN IF outcome = "ok" THEN [sink |-> snk \o str, err |-> NoErr]
         ELSE [sink |-> << >>, err |-> ErrWrite]
    ELSE [sink |-> snk, err |-> NoErr]

\* Mutant of writeStateGraphString: the error of Write is dropped.
writeStateGraphStringIgnoreErr(file, snk, str, outcome) ==
    IF file # NilFile
    THEN CASE outcome = "ok" -> [sink |-> snk \o str, err |-> NoErr]
           [] outcome = "none" -> [sink |-> snk, err |-> NoErr]
           [] outcome = "partial" -> [sink |-> snk \o << Head(str) >>, err |-> NoErr]
    ELSE [sink |-> snk, err |-> NoErr]

\* writeStateGraphString: the file afterwards and the error returned.
writeStateGraphString(file, snk, str, outcome) ==
    IF file # NilFile
    THEN CASE outcome = "ok" -> [sink |-> snk \o str, err |-> NoErr]
           [] outcome = "none" -> [sink |-> snk, err |-> ErrWrite]
           [] outcome = "partial" -> [sink |-> snk \o << Head(str) >>, err |-> ErrWrite]
    ELSE [sink |-> snk, err |-> NoErr]

\* LogStateTransitionGraph: the path of the file it creates.
FilePath(path) ==
    LET p == IF path = << >> THEN << "." >> ELSE path
    IN TrimSuffix(p, "/") \o << "/", dotFileName, ".", dotFileExtension >>

\* Mutant of logResult: the result of os.Create is stored before the error is
\* tested, so a failed create leaves fsm.dotFile nil.
logResultStoreFirst(path, created, file, snk) ==
    IF created
    THEN [dotFile |-> FilePath(path), sink |-> << >>, ret |-> NoErr]
    ELSE [dotFile |-> NilFile, sink |-> snk, ret |-> ErrCreate]

\* LogStateTransitionGraph, given whether os.Create succeeds: fsm.dotFile, the
\* file behind it and the error returned.  os.Create leaves the file empty.
logResult(path, created, file, snk) ==
    IF created
    THEN [dotFile |-> FilePath(path), sink |-> << >>, ret |-> NoErr]
    ELSE [dotFile |-> file, sink |-> snk, ret |-> ErrCreate]

\* Mutant of runEntry: Run starts from an empty history and step 0.
runEntryReset(startState, file, s, m) ==
    IF startState = NilState
    THEN [returns |-> TRUE, ret |-> ErrStartNil, step |-> s, adjacencyMap |-> m]
    ELSE LET r == IF file = NilFile THEN [step |-> 0, adjacencyMap |-> EmptyMap]
                  ELSE [step |-> 1,
                        adjacencyMap |->
                            MapPut(EmptyMap, startID,
                                MapPut(EmptyMap, getFunctionName(startState), << 1 >>))]
         IN [returns |-> FALSE, ret |-> NoErr, step |-> r.step,
             adjacencyMap |-> r.adjacencyMap]

\* Mutant of runEntry: the start transition is recorded before the nil check.
runEntryRecordFirst(startState, file, s, m) ==
    LET r == IF file = NilFile THEN [step |-> s, adjacencyMap |-> m]
             ELSE LET src == IF startID \in DOMAIN m THEN m[startID] ELSE EmptyMap
                      dst == getFunctionName(startState)
                      old == IF dst \in DOMAIN src THEN src[dst] ELSE << >>
                  IN [step |-> s + 1,
                      adjacencyMap |->
                          MapPut(m, startID, MapPut(src, dst, Append(old, s + 1)))]
    IN [returns |-> startState = NilState,
        ret |-> IF startState = NilState THEN ErrStartNil ELSE NoErr,
        step |-> r.step, adjacencyMap |-> r.adjacencyMap]

\* Run, lines 63-68: the nil check, then fsm.start and the first statements
\* of run() up to the loop: what is returned at once (if anything) and the
\* step and history afterwards.
runEntry(startState, file, s, m) ==
    IF startState = NilState
    THEN [returns |-> TRUE, ret |-> ErrStartNil, step |-> s, adjacencyMap |-> m]
    ELSE LET r == recordStateTransition(file, s, m, startID,
                                        getFunctionName(startState))
         IN [returns |-> FALSE, ret |-> NoErr, step |-> r.step,
             adjacencyMap |-> r.adjacencyMap]

\* Mutant of loopCond: the loop gives up after one invocation.
loopCondLimit(cs, e) == cs # NilState /\ e = NoErr /\ Len(calls) < 1

\* Mutant of loopCond: the loop goes on after an error.
loopCondNoErr(cs, e) == cs # NilState

\* The loop condition of run().
loopCond(cs, e) == cs # NilState /\ e = NoErr

\* Mutant of loopBody: currentState is assigned before the transition is
\* recorded.
loopBodyAssignFirst(file, s, m, snk, cs, next, e) ==
    LET r == recordStateTransition(file, s, m, getFunctionName(next),
                                   getFunctionName(next))
    IN [nextState |-> next, err |-> e, step |-> r.step,
        adjacencyMap |-> r.adjacencyMap, currentState |-> next, sink |-> snk]

\* Mutant of loopBody: a failing transition is recorded as one into "end".
loopBodyEndOnErr(file, s, m, snk, cs, next, e) ==
    LET r == recordStateTransition(file, s, m, getFunctionName(cs),
                 IF e # NoErr THEN endID ELSE getFunctionName(next))
    IN [nextState |-> next, err |-> e, step |-> r.step,
        adjacencyMap |-> r.adjacencyMap, currentState |-> next, sink |-> snk]

\* Mutant of loopBody: a failing transition is not recorded.
loopBodySkipOnErr(file, s, m, snk, cs, next, e) ==
    LET r == IF e # NoErr THEN [step |-> s, adjacencyMap |-> m]
             ELSE recordStateTransition(file, s, m, getFunctionName(cs),
                                        getFunctionName(next))
    IN [nextState |-> next, err |-> e, step |-> r.step,
        adjacencyMap |-> r.adjacencyMap, currentState |-> next, sink |-> snk]

\* Mutant of loopBody: every transition is written to the file as it happens.
loopBodyWriteThrough(file, s, m, snk, cs, next, e) ==
    LET r == recordStateTransition(file, s, m, getFunctionName(cs),
                                   getFunctionName(next))
    IN [nextState |-> next, err |-> e, step |-> r.step,
        adjacencyMap |-> r.adjacencyMap, currentState |-> next,
        sink |-> IF file = NilFile THEN snk
                 ELSE snk \o stateGraphString(getFunctionName(cs),
                                              getFunctionName(next), << r.step >>)]

\* Mutant of loopBody: a tracing machine stops at a transition that its
\* history already holds.
loopBodyStopOnRevisit(file, s, m, snk, cs, next, e) ==
    LET r == recordStateTransition(file, s, m, getFunctionName(cs),
                                   getFunctionName(next))
        seen == /\ file # NilFile
                /\ getFunctionName(cs) \in DOMAIN m
                /\ getFunctionName(next) \in DOMAIN m[getFunctionName(cs)]
    IN [nextState |-> next, err |-> e, step |-> r.step,
        adjacencyMap |-> r.adjacencyMap,
        currentState |-> IF seen THEN NilState ELSE next, sink |-> snk]

\* The loop body of run(), given what currentState() returned: the fields
\* and locals afterwards.  It does not touch the file.
loopBody(file, s, m, snk, cs, next, e) ==
    LET r == recordStateTransition(file, s, m, getFunctionName(cs),
                                   getFunctionName(next))
    IN [nextState |-> next, err |-> e, step |-> r.step,
        adjacencyMap |-> r.adjacencyMap, currentState |-> next, sink |-> snk]

\* Mutant of runResult: only the err of adjacencyMapToDotGraph is returned.
runResultRenderOnly(runErr, rErr) == rErr

\* Mutant of runResult: the err of adjacencyMapToDotGraph is dropped.
runResultRunOnly(runErr, rErr) == runErr

\* Run, lines 70-77: what Run returns, from the err of run() and the err of
\* adjacencyMapToDotGraph (NoErr when not tracing).
runResult(runErr, rErr) == IF rErr # NoErr THEN rErr ELSE runErr

\* Mutant of storeStep: the increment is lost.
storeStepSame(tmp) == tmp

\* fsm.step++, the store: the value loaded before, plus one.
storeStep(tmp) == tmp + 1

\* ------------------------------------------------------------------- Init
\* NewMachine, for the second machine: its fields, where its Run is, the
\* locals of run(), the State functions its current Run invoked and what its
\* last Run returned.
NewTwin ==
    [start |-> NilState, step |-> 0, adjacencyMap |-> EmptyMap, pc |-> "idle",
     currentState |-> NilState, nextState |-> NilState, err |-> NoErr,
     calls |-> << >>, ret |-> NoErr]

\* No goroutine calls Run concurrently: no locals, no call of
\* recordStateTransition has overlapped another, none has returned.
NoGoroutines == [of |-> << >>, overlapped |-> FALSE, recorded |-> 0]

\* fsm.adjacencyMap of NewMachine as objects: no vertex, no inner map.
NewHeap == [ref |-> EmptyMap, obj |-> << >>]

InitOthers ==
    /\ twin = NewTwin
    /\ goroutines = NoGoroutines
    /\ heap = NewHeap

\* NewMachine
Init ==
    /\ start = NilState
    /\ step = 0
    /\ dotFile = NilFile
    /\ adjacencyMap = EmptyMap
    /\ sink = << >>
    /\ pc = "idle"
    /\ currentState = NilState
    /\ nextState = NilState
    /\ err = NoErr
    /\ curVertex = ""
    /\ visited = {}
    /\ lastCall = "NewMachine"
    /\ ret = NoErr
    /\ calls = << >>
    /\ runs = 0
    /\ renderErr = NoErr
    /\ startArg = NilState
    /\ invoked = 0
    /\ stepAtStart = 0
    /\ InitOthers

\* ---------------------------------------------------------------- actions
\* Run returns v to its caller.
Return(v) ==
    /\ pc' = "idle"
    /\ ret' = v
    /\ lastCall' = "Run"

\* Run(startState), up to the first test of the loop condition of run().
Run ==
    /\ pc = "idle"
    /\ runs < MaxRuns
    /\ \E startState \in States \cup {NilState} :
          LET r == runEntry(startState, dotFile, step, adjacencyMap)
          IN /\ startArg' = startState
             /\ step' = r.step
             /\ adjacencyMap' = r.adjacencyMap
             /\ IF r.returns
                THEN /\ Return(r.ret)
                     /\ UNCHANGED << start, currentState, nextState, err >>
                ELSE /\ start' = startState
                     /\ currentState' = startState
                     /\ nextState' = NilState
                     /\ err' = NoErr
                     /\ pc' = "loop"
                     /\ UNCHANGED << ret, lastCall >>
    /\ runs' = runs + 1
    /\ calls' = << >>
    /\ stepAtStart' = step
    /\ sink' = << >>
    /\ renderErr' = NoErr
    /\ UNCHANGED << dotFile, curVertex, visited, invoked >>

\* One iteration of the loop of run(): currentState is invoked and returns
\* (next, e); the transition is recorded.
Invoke ==
    /\ pc = "loop"
    /\ loopCond(currentState, err)
    /\ invoked < MaxCalls
    /\ \E next \in States \cup {NilState}, e \in HandlerErrors \cup {NoErr} :
          LET b == loopBody(dotFile, step, adjacencyMap, sink, currentState, next, e)
          IN /\ nextState' = b.nextState
             /\ err' = b.err
             /\ step' = b.step
             /\ adjacencyMap' = b.adjacencyMap
             /\ currentState' = b.currentState
             /\ sink' = b.sink
             /\ calls' = Append(calls, [state |-> currentState, next |-> next, err |-> e])
    /\ invoked' = invoked + 1
    /\ UNCHANGED << start, dotFile, pc, curVertex, visited, lastCall, ret, runs,
                    renderErr, startArg, stepAtStart >>

\* The loop condition of run() is false: run() returns err to Run, which
\* renders the graph when tracing and returns err otherwise.
ExitLoop ==
    /\ pc = "loop"
    /\ ~loopCond(currentState, err)
    /\ IF isTracing(dotFile)
       THEN /\ pc' = "header"
            /\ UNCHANGED << ret, lastCall >>
       ELSE Return(runResult(err, NoErr))
    /\ UNCHANGED << start, step, dotFile, adjacencyMap, sink, currentState,
                    nextState, err, curVertex, visited, calls, runs, renderErr,
                    startArg, invoked, stepAtStart >>

\* adjacencyMapToDotGraph: write the header.
WriteHeader ==
    /\ pc = "header"
    /\ \E outcome \in WriteOutcomes :
          LET w == writeStateGraphString(dotFile, sink, dotFileHeader, outcome)
          IN /\ sink' = w.sink
             /\ renderErr' = w.err
             /\ IF w.err # NoErr
                THEN Return(runResult(err, w.err))
                ELSE /\ pc' = "edges"
                     /\ UNCHANGED << ret, lastCall >>
    /\ curVertex' = ""
    /\ visited' = {}
    /\ UNCHANGED << start, step, dotFile, adjacencyMap, currentState, nextState,
                    err, calls, runs, startArg, invoked, stepAtStart >>

\* The (vertex, edge) pairs the nested range may yield next: the edges of the
\* current vertex first, then any vertex not ranged over yet.
NextInRange ==
    LET left == Edges(adjacencyMap) \ visited
        here == { p \in left : p[1] = curVertex }
    IN IF here # {} THEN here ELSE left

\* adjacencyMapToDotGraph: one iteration of the inner range, writing one edge.
\* When it returns, the ranges are gone.
WriteEdge ==
    /\ pc = "edges"
    /\ \E p \in NextInRange, outcome \in WriteOutcomes :
          LET w == writeStateGraphString(dotFile, sink,
                       stateGraphString(p[1], p[2], adjacencyMap[p[1]][p[2]]), outcome)
          IN /\ sink' = w.sink
             /\ renderErr' = w.err
             /\ curVertex' = IF w.err # NoErr THEN "" ELSE p[1]
             /\ visited' = IF w.err # NoErr THEN {} ELSE visited \cup {p}
             /\ IF w.err # NoErr
                THEN Return(runResult(err, w.err))
                ELSE UNCHANGED << pc, ret, lastCall >>
    /\ UNCHANGED << start, step, dotFile, adjacencyMap, currentState, nextState,
                    err, calls, runs, startArg, invoked, stepAtStart >>

\* adjacencyMapToDotGraph: the ranges are over; write the footer.  Run then
\* returns the error of the write, or the err of run().
WriteFooter ==
    /\ pc = "edges"
    /\ NextInRange = {}
    /\ \E outcome \in WriteOutcomes :
          LET w == writeStateGraphString(dotFile, sink, dotFileFooter, outcome)
          IN /\ sink' = w.sink
             /\ renderErr' = w.err
             /\ Return(runResult(err, w.err))
    /\ curVertex' = ""
    /\ visited' = {}
    /\ UNCHANGED << start, step, dotFile, adjacencyMap, currentState, nextState,
                    err, calls, runs, startArg, invoked, stepAtStart >>

\* LogStateTransitionGraph(path)
LogStateTransitionGraph ==
    /\ pc = "idle"
    /\ \E path \in Paths, created \in BOOLEAN :
          LET r == logResult(path, created, dotFile, sink)
          IN /\ dotFile' = r.dotFile
             /\ sink' = r.sink
             /\ ret' = r.ret
    /\ lastCall' = "LogStateTransitionGraph"
    /\ UNCHANGED << start, step, adjacencyMap, pc, currentState, nextState, err,
                    curVertex, visited, calls, runs, renderErr, startArg, invoked,
                    stepAtStart >>

Next ==
    \/ Run /\ UNCHANGED others
    \/ Invoke /\ UNCHANGED others
    \/ ExitLoop /\ UNCHANGED others
    \/ WriteHeader /\ UNCHANGED others
    \/ WriteEdge /\ UNCHANGED others
    \/ WriteFooter /\ UNCHANGED others
    \/ LogStateTransitionGraph /\ UNCHANGED others

Spec == Init /\ [][Next]_vars

\* The steps Run takes by itself once the last State function has returned.
\* Run is sequential code and every write returns, so it goes on until it
\* returns.
EngineStep ==
    (ExitLoop \/ WriteHeader \/ WriteEdge \/ WriteFooter) /\ UNCHANGED others

\* The behaviours of a machine that is run at most MaxFairRuns times, with
\* Run going on by itself.
RunFair == runs < MaxFairRuns /\ Run

NextFair ==
    \/ RunFair /\ UNCHANGED others
    \/ Invoke /\ UNCHANGED others
    \/ ExitLoop /\ UNCHANGED others
    \/ WriteHeader /\ UNCHANGED others
    \/ WriteEdge /\ UNCHANGED others
    \/ WriteFooter /\ UNCHANGED others
    \/ LogStateTransitionGraph /\ UNCHANGED others

FairSpec == Init /\ [][NextFair]_vars /\ WF_vars(EngineStep)

\* ------------------------------------------- rendering one history twice
\* The names of the State functions.
Names == { getFunctionName(f) : f \in States }

\* The transitions that may be recorded after a history whose last transition
\* led to `at`: the next one of the same run, or the first of a new run.
NextTransitions(at) ==
    { << startID, d >> : d \in Names }
        \cup (IF at \in Names THEN { << at, d >> : d \in Names \cup {endID} } ELSE {})

\* The histories of at most n transitions that runs of a tracing machine
\* leave, with their step counter and the destination of the last transition.
RECURSIVE Histories(_)
Histories(n) ==
    IF n = 0
    THEN { [step |-> 0, adjacencyMap |-> EmptyMap, at |-> endID] }
    ELSE LET prev == Histories(n - 1)
         IN prev \cup
            { [step |-> x[1].step + 1,
               adjacencyMap |->
                   recordStateTransition(FilePath(<< >>), x[1].step,
                       x[1].adjacencyMap, x[2][1], x[2][2]).adjacencyMap,
               at |-> x[2][2]] :
              x \in { y \in prev \X ((Names \cup {startID}) \X (Names \cup {endID})) :
                        y[1].step = n - 1 /\ y[2] \in NextTransitions(y[1].at) } }

\* A tracing machine that holds a history and is about to render it.
InitRender ==
    /\ \E h \in Histories(MaxHist) :
          /\ h.step > 0
          /\ step = h.step
          /\ adjacencyMap = h.adjacencyMap
    /\ dotFile = FilePath(<< >>)
    /\ sink = << >>
    /\ pc = "header"
    /\ start = NilState
    /\ currentState = NilState
    /\ nextState = NilState
    /\ err = NoErr
    /\ curVertex = ""
    /\ visited = {}
    /\ lastCall = "NewMachine"
    /\ ret = NoErr
    /\ calls = << >>
    /\ runs = 1
    /\ renderErr = NoErr
    /\ startArg = NilState
    /\ invoked = 0
    /\ stepAtStart = 0
    /\ InitOthers

\* adjacencyMapToDotGraph is called again on the same history; the file keeps
\* what the first call wrote.
RenderAgain ==
    /\ pc = "idle"
    /\ runs = 1
    /\ renderErr = NoErr
    /\ pc' = "header"
    /\ runs' = runs + 1
    /\ UNCHANGED << start, step, dotFile, adjacencyMap, sink, currentState,
                    nextState, err, curVertex, visited, lastCall, ret, calls,
                    renderErr, startArg, invoked, stepAtStart >>

NextRender ==
    \/ WriteHeader /\ UNCHANGED others
    \/ WriteEdge /\ UNCHANGED others
    \/ WriteFooter /\ UNCHANGED others
    \/ RenderAgain /\ UNCHANGED others

SpecRender == InitRender /\ [][NextRender]_vars

\* ------------------------------------- two machines, one of them tracing
\* The second machine is a NewMachine on which LogStateTransitionGraph is
\* never called: its dotFile is nil.  It is given the Run calls of the first
\* machine and its State functions return what those of the first return.

\* Run(startState) on the second machine, up to the first test of the loop
\* condition of run().
twinRun(t, startState) ==
    LET r == runEntry(startState, NilFile, t.step, t.adjacencyMap)
    IN IF t.pc # "idle" THEN t
       ELSE IF r.returns
       THEN [t EXCEPT !.step = r.step, !.adjacencyMap = r.adjacencyMap,
                      !.calls = << >>, !.ret = r.ret]
       ELSE [t EXCEPT !.step = r.step, !.adjacencyMap = r.adjacencyMap,
                      !.calls = << >>, !.start = startState,
                      !.currentState = startState, !.nextState = NilState,
                      !.err = NoErr, !.pc = "loop"]

\* One iteration of the loop of run() on the second machine, whose
\* currentState returns (next, e); nothing when its loop is over.
twinInvoke(t, next, e) ==
    IF t.pc = "loop" /\ loopCond(t.currentState, t.err)
    THEN LET b == loopBody(NilFile, t.step, t.adjacencyMap, << >>,
                           t.currentState, next, e)
         IN [t EXCEPT !.nextState = b.nextState, !.err = b.err, !.step = b.step,
                      !.adjacencyMap = b.adjacencyMap,
                      !.currentState = b.currentState,
                      !.calls = Append(t.calls, [state |-> t.currentState,
                                                 next |-> next, err |-> e])]
    ELSE t

\* The loop condition of run() is false on the second machine: its Run
\* returns the err of run(), since it is not tracing.
twinExit(t) ==
    IF t.pc = "loop" /\ ~loopCond(t.currentState, t.err)
    THEN [t EXCEPT !.pc = "idle", !.ret = runResult(t.err, NoErr)]
    ELSE t

\* Run is called on both machines with the same startState.
RunTwin ==
    /\ Run
    /\ twin' = twinRun(twin, startArg')
    /\ UNCHANGED << goroutines, heap >>

\* The State function invoked on the first machine returns; the one invoked
\* on the second machine returns the same.
InvokeTwin ==
    /\ Invoke
    /\ LET c == calls'[Len(calls')]
       IN twin' = twinInvoke(twin, c.next, c.err)
    /\ UNCHANGED << goroutines, heap >>

\* The loop of the first machine is over, and that of the second if its
\* condition is false too.
ExitLoopTwin ==
    /\ ExitLoop
    /\ twin' = twinExit(twin)
    /\ UNCHANGED << goroutines, heap >>

NextTwin ==
    \/ RunTwin
    \/ InvokeTwin
    \/ ExitLoopTwin
    \/ WriteHeader /\ UNCHANGED others
    \/ WriteEdge /\ UNCHANGED others
    \/ WriteFooter /\ UNCHANGED others
    \/ LogStateTransitionGraph /\ UNCHANGED others

SpecTwin == Init /\ [][NextTwin]_vars

\* ------------------------------------------ two goroutines call Run
\* Two goroutines call Run once each on one machine, without a lock (the
\* code has none).  Every statement of recordStateTransition that reads or
\* writes fsm.step or a map is a step of its own, and fsm.step++ is a load
\* and a store.  The inner maps of fsm.adjacencyMap are objects: a goroutine
\* keeps the inner map it looked up (edgeMap) when another goroutine puts a
\* new one in its place.  adjacencyMap is what fsm.adjacencyMap holds.  The
\* slice of steps is a value: a slice shorter than three has no spare
\* capacity, so every append within the bounds allocates.  The contents of
\* the file are not followed.
Goroutines == { 1, 2 }

\* The errors the State functions of the goroutines return: one of the
\* handler errors (which one makes no difference to the recorder).
RaceErrors == { CHOOSE e \in HandlerErrors : TRUE }

\* The locals of a goroutine that has not called Run.
IdleLocals ==
    [pc |-> "idle", currentState |-> NilState, nextState |-> NilState,
     err |-> NoErr, curr |-> "", next |-> "", inLoop |-> FALSE, tmp |-> 0,
     edgeMap |-> 0, edgeSteps |-> << >>, ret |-> NoErr]

\* What fsm.adjacencyMap holds: vertex -> edge -> steps.
HeapView(h) == [v \in DOMAIN h.ref |-> h.obj[h.ref[v]]]

\* A machine, tracing or not, that no goroutine has called yet.
InitRace ==
    /\ start = NilState
    /\ step = 0
    /\ dotFile \in { NilFile, FilePath(<< >>) }
    /\ adjacencyMap = EmptyMap
    /\ sink = << >>
    /\ pc = "idle"
    /\ currentState = NilState
    /\ nextState = NilState
    /\ err = NoErr
    /\ curVertex = ""
    /\ visited = {}
    /\ lastCall = IF dotFile = NilFile THEN "NewMachine" ELSE "LogStateTransitionGraph"
    /\ ret = NoErr
    /\ calls = << >>
    /\ runs = 0
    /\ renderErr = NoErr
    /\ startArg = NilState
    /\ invoked = 0
    /\ stepAtStart = 0
    /\ twin = NewTwin
    /\ goroutines = [of |-> [g \in Goroutines |-> IdleLocals],
                     overlapped |-> FALSE, recorded |-> 0]
    /\ heap = NewHeap

\* The statements of recordStateTransition after the isTracing check.
RecorderPcs == { "load", "store", "vertex", "create", "edgemap", "edge",
                 "newedge", "steps", "append" }

\* Goroutine g takes a step inside recordStateTransition while another
\* goroutine is inside it too.
Overlaps(g) ==
    \E h \in Goroutines \ {g} : goroutines.of[h].pc \in RecorderPcs

\* The variables of the one-goroutine specifications that concurrent use
\* leaves alone.
raceIdle == << dotFile, sink, pc, currentState, nextState, err, curVertex,
               visited, lastCall, ret, calls, renderErr, startArg, stepAtStart,
               twin >>

\* Goroutine g goes on with locals l; fsm.start, fsm.step and the maps stay.
Local(g, l) ==
    /\ goroutines' = [goroutines EXCEPT !.of[g] = l]
    /\ UNCHANGED << start, step, adjacencyMap, heap, runs, invoked >>

\* Goroutine g takes a step of recordStateTransition and goes on with
\* locals l.
InRecorder(g, l) ==
    goroutines' = [goroutines EXCEPT
                      !.of[g] = l,
                      !.overlapped = goroutines.overlapped \/ Overlaps(g)]

\* recordStateTransition returns to run(): after the call in the loop,
\* currentState = nextState; then the loop condition is tested.
\* The locals of recordStateTransition are gone.
afterRecord(l) ==
    LET cs == IF l.inLoop THEN l.nextState ELSE l.currentState
    IN [l EXCEPT !.currentState = cs,
                 !.pc = IF loopCond(cs, l.err) THEN "invoke" ELSE "exit",
                 !.curr = "", !.next = "", !.tmp = 0, !.edgeMap = 0,
                 !.edgeSteps = << >>]

\* recordStateTransition(curr, next) is called, lines 159-161: it returns at
\* once unless the machine is tracing.
callRecord(l, curr, next) ==
    IF isTracing(dotFile)
    THEN [l EXCEPT !.curr = curr, !.next = next, !.pc = "load"]
    ELSE afterRecord(l)

\* Run(startState), lines 62-66: the nil check and fsm.start = startState.
\* Goroutine 1 is the one that calls first.
GoRun(g) ==
    /\ goroutines.of[g].pc = "idle"
    /\ g = 1 \/ goroutines.of[1].pc # "idle"
    /\ \E startState \in States \cup {NilState} :
          IF startState = NilState
          THEN /\ goroutines' = [goroutines EXCEPT !.of[g].pc = "done",
                                                   !.of[g].ret = ErrStartNil]
               /\ UNCHANGED start
          ELSE /\ goroutines' = [goroutines EXCEPT !.of[g].pc = "run"]
               /\ start' = startState
    /\ runs' = runs + 1
    /\ UNCHANGED << step, adjacencyMap, heap, invoked, raceIdle >>

\* run(), lines 82-87: currentState = fsm.start, which the other goroutine
\* may have set, and the call of recordStateTransition(startID, ...).
GoStart(g) ==
    /\ goroutines.of[g].pc = "run"
    /\ Local(g, callRecord([goroutines.of[g] EXCEPT
                               !.currentState = start, !.nextState = NilState,
                               !.err = NoErr, !.inLoop = FALSE],
                           startID, getFunctionName(start)))
    /\ UNCHANGED raceIdle

\* fsm.step++, line 164: the load.
RecLoad(g) ==
    /\ goroutines.of[g].pc = "load"
    /\ InRecorder(g, [goroutines.of[g] EXCEPT !.tmp = step, !.pc = "store"])
    /\ UNCHANGED << start, step, adjacencyMap, heap, runs, invoked, raceIdle >>

\* fsm.step++, line 164: the store.
RecStore(g) ==
    /\ goroutines.of[g].pc = "store"
    /\ step' = storeStep(goroutines.of[g].tmp)
    /\ InRecorder(g, [goroutines.of[g] EXCEPT !.pc = "vertex"])
    /\ UNCHANGED << start, adjacencyMap, heap, runs, invoked, raceIdle >>

\* Line 167: _, haveVertex := fsm.adjacencyMap[curr].
RecVertex(g) ==
    /\ goroutines.of[g].pc = "vertex"
    /\ InRecorder(g, [goroutines.of[g] EXCEPT
                         !.pc = IF goroutines.of[g].curr \in DOMAIN heap.ref
                                THEN "edgemap" ELSE "create"])
    /\ UNCHANGED << start, step, adjacencyMap, heap, runs, invoked, raceIdle >>

\* Lines 170-172: fsm.adjacencyMap[curr] = map[string][]int64{}.
RecCreate(g) ==
    /\ goroutines.of[g].pc = "create"
    /\ heap' = [ref |-> MapPut(heap.ref, goroutines.of[g].curr, Len(heap.obj) + 1),
                obj |-> Append(heap.obj, EmptyMap)]
    /\ adjacencyMap' = HeapView(heap')
    /\ InRecorder(g, [goroutines.of[g] EXCEPT !.pc = "edgemap"])
    /\ UNCHANGED << start, step, runs, invoked, raceIdle >>

\* Line 173: edgeMap, _ := fsm.adjacencyMap[curr].
RecEdgeMap(g) ==
    /\ goroutines.of[g].pc = "edgemap"
    /\ InRecorder(g, [goroutines.of[g] EXCEPT
                         !.edgeMap = heap.ref[goroutines.of[g].curr],
                         !.pc = "edge"])
    /\ UNCHANGED << start, step, adjacencyMap, heap, runs, invoked, raceIdle >>

\* Line 176: _, haveEdge := edgeMap[next].
RecEdge(g) ==
    /\ goroutines.of[g].pc = "edge"
    /\ LET l == goroutines.of[g]
       IN InRecorder(g, [l EXCEPT
                            !.pc = IF l.next \in DOMAIN heap.obj[l.edgeMap]
                                   THEN "steps" ELSE "newedge"])
    /\ UNCHANGED << start, step, adjacencyMap, heap, runs, invoked, raceIdle >>

\* Lines 177-179: edgeMap[next] = []int64{}.
RecNewEdge(g) ==
    /\ goroutines.of[g].pc = "newedge"
    /\ LET l == goroutines.of[g]
       IN heap' = [heap EXCEPT
                      !.obj[l.edgeMap] = MapPut(heap.obj[l.edgeMap], l.next, << >>)]
    /\ adjacencyMap' = HeapView(heap')
    /\ InRecorder(g, [goroutines.of[g] EXCEPT !.pc = "steps"])
    /\ UNCHANGED << start, step, runs, invoked, raceIdle >>

\* Line 180: edgeSteps, _ := edgeMap[next].
RecSteps(g) ==
    /\ goroutines.of[g].pc = "steps"
    /\ LET l == goroutines.of[g]
       IN InRecorder(g, [l EXCEPT !.edgeSteps = heap.obj[l.edgeMap][l.next],
                                  !.pc = "append"])
    /\ UNCHANGED << start, step, adjacencyMap, heap, runs, invoked, raceIdle >>

\* Line 183: edgeMap[next] = append(edgeSteps, fsm.step); then
\* recordStateTransition returns.
RecAppend(g) ==
    /\ goroutines.of[g].pc = "append"
    /\ LET l == goroutines.of[g]
       IN /\ heap' = [heap EXCEPT
                         !.obj[l.edgeMap] =
                             MapPut(heap.obj[l.edgeMap], l.next,
                                    Append(l.edgeSteps, step))]
          /\ goroutines' = [goroutines EXCEPT
                               !.of[g] = afterRecord(l),
                               !.overlapped = goroutines.overlapped \/ Overlaps(g),
                               !.recorded = goroutines.recorded + 1]
    /\ adjacencyMap' = HeapView(heap')
    /\ UNCHANGED << start, step, runs, invoked, raceIdle >>

\* run(), lines 89-90: currentState() returns (next, e) and
\* recordStateTransition is called.
GoInvoke(g) ==
    /\ goroutines.of[g].pc = "invoke"
    /\ invoked < MaxRaceCalls
    /\ \E next \in States \cup {NilState}, e \in RaceErrors \cup {NoErr} :
          LET l == goroutines.of[g]
          IN goroutines' = [goroutines EXCEPT !.of[g] =
                 callRecord([l EXCEPT !.nextState = next, !.err = e,
                                      !.inLoop = TRUE],
                            getFunctionName(l.currentState),
                            getFunctionName(next))]
    /\ invoked' = invoked + 1
    /\ UNCHANGED << start, step, adjacencyMap, heap, runs, raceIdle >>

\* Run, lines 70-77: after run(), the graph is rendered when tracing, and
\* Run returns.
GoReturn(g) ==
    /\ goroutines.of[g].pc = "exit"
    /\ \E werr \in IF isTracing(dotFile) THEN { NoErr, ErrWrite } ELSE { NoErr } :
          Local(g, [goroutines.of[g] EXCEPT
                       !.pc = "done",
                       !.ret = runResult(goroutines.of[g].err, werr)])
    /\ UNCHANGED raceIdle

\* The map a goroutine at pc is about to read or write: the outer map, the
\* inner map it holds, or none.
MapAt(l) ==
    IF l.pc \in { "vertex", "create", "edgemap" } THEN "outer"
    ELSE IF l.pc \in { "edge", "newedge", "steps", "append" } THEN "inner"
    ELSE "none"

\* Two goroutines are about to use the same map and one of them to write:
\* the Go runtime may detect it.
MapConflict ==
    \E g, h \in Goroutines :
        LET a == goroutines.of[g]
            b == goroutines.of[h]
        IN /\ g # h
           /\ a.pc \in { "create", "newedge", "append" }
           /\ MapAt(a) = MapAt(b)
           /\ MapAt(a) = "inner" => a.edgeMap = b.edgeMap

\* fatal error: concurrent map writes (or: concurrent map read and map
\* write).  The process ends.
Fatal ==
    /\ MapConflict
    /\ goroutines' = [goroutines EXCEPT
                         !.of = [g \in Goroutines |->
                                    [IdleLocals EXCEPT !.pc = "dead"]],
                         !.overlapped = TRUE]
    /\ UNCHANGED << start, step, adjacencyMap, heap, runs, invoked, raceIdle >>

NextRace ==
    \/ \E g \in Goroutines : GoRun(g)
    \/ \E g \in Goroutines : GoStart(g)
    \/ \E g \in Goroutines : RecLoad(g)
    \/ \E g \in Goroutines : RecStore(g)
    \/ \E g \in Goroutines : RecVertex(g)
    \/ \E g \in Goroutines : RecCreate(g)
    \/ \E g \in Goroutines : RecEdgeMap(g)
    \/ \E g \in Goroutines : RecEdge(g)
    \/ \E g \in Goroutines : RecNewEdge(g)
    \/ \E g \in Goroutines : RecSteps(g)
    \/ \E g \in Goroutines : RecAppend(g)
    \/ \E g \in Goroutines : GoInvoke(g)
    \/ \E g \in Goroutines : GoReturn(g)
    \/ Fatal

SpecRace == InitRace /\ [][NextRace]_vars

\* ------------------------------------------------------ claim vocabulary
\* The name of every State function of the model, and of nil.
NameOf == [ f \in States \cup {NilState} |-> getFunctionName(f) ]

\* Run has just returned to its caller.
RunReturned == pc = "idle" /\ lastCall = "Run"

\* A Run is in progress or has just returned: dotFile, calls and sink are
\* those of that Run.
InRun == pc # "idle" \/ lastCall = "Run"

\* The last State function invocation of the current Run.
LastCall == calls[Len(calls)]

\* Some / no State function of the current Run returned an error.
SomeFailed == \E i \in 1..Len(calls) : calls[i].err # NoErr
NoneFailed == \A i \in 1..Len(calls) : calls[i].err = NoErr

\* The places of a history that hold a step: (vertex, edge, index).
Places(m) ==
    UNION { UNION { { << v, e, i >> : i \in 1..Len(m[v][e]) } : e \in DOMAIN m[v] } :
            v \in DOMAIN m }

\* The number of transitions a history holds, over all edges.
TotalTransitions(m) == Cardinality(Places(m))

\* The step numbers a history holds.
AllSteps(m) == { m[p[1]][p[2]][p[3]] : p \in Places(m) }

\* The edge (vertex, edge) is in the history and holds the latest step last.
LatestOn(vertex, edge) ==
    /\ << vertex, edge >> \in Edges(adjacencyMap)
    /\ adjacencyMap[vertex][edge] # << >>
    /\ adjacencyMap[vertex][edge][Len(adjacencyMap[vertex][edge])] = step

\* sub occurs in seq as a run of consecutive tokens.
Contains(seq, sub) ==
    \E i \in 1..(Len(seq) - Len(sub) + 1) : SubSeq(seq, i, i + Len(sub) - 1) = sub

\* ------------------------------------------------------------------ claims
\* C1: whenever some handler of a run returned a non-nil error, Run returns
\* exactly that error, so that a render failure is seen only on a run in which
\* no handler failed.
C1_HandlerErrorReturned ==
    (RunReturned /\ SomeFailed) =>
        \E i \in 1..Len(calls) : calls[i].err # NoErr /\ ret = calls[i].err

\* C2: once a handler returns a non-nil error no handler is invoked after it,
\* even when it also returned a non-nil next handler: a failing invocation is
\* the last invocation of its run.
C2_NoInvocationAfterFailure ==
    \A i \in 1..Len(calls) : calls[i].err # NoErr => i = Len(calls)

C2_Witness ==
    /\ RunReturned
    /\ Len(calls) > 0
    /\ LastCall.err # NoErr
    /\ LastCall.next # NilState

\* C3: for a run started with a non-nil handler whose rendering did not fail
\* (or did not happen), Run returns nil exactly when no handler failed and the
\* last handler invoked returned a nil next handler with a nil error.
C3_NilIffTerminalSuccess ==
    (RunReturned /\ startArg # NilState /\ renderErr = NoErr) =>
        ((ret = NoErr) <=>
            /\ NoneFailed
            /\ Len(calls) > 0
            /\ LastCall.next = NilState
            /\ LastCall.err = NoErr)

C3_Witness ==
    /\ RunReturned
    /\ startArg # NilState
    /\ isTracing(dotFile)
    /\ renderErr = NoErr
    /\ ret = NoErr
    /\ Len(calls) = 2

\* C4: Run with a nil start handler returns the invalid-argument error and
\* changes neither the history nor the step counter, invokes no handler and
\* writes nothing, tracing or not.
C4_RunNilNoSideEffects ==
    [][(pc = "idle" /\ runs' = runs + 1 /\ startArg' = NilState) =>
          /\ pc' = "idle"
          /\ lastCall' = "Run"
          /\ ret' = ErrStartNil
          /\ adjacencyMap' = adjacencyMap
          /\ step' = step
          /\ start' = start
          /\ dotFile' = dotFile
          /\ invoked' = invoked
          /\ calls' = << >>
          /\ sink' = << >>]_vars

C4_Witness ==
    /\ RunReturned
    /\ startArg = NilState
    /\ ret = ErrStartNil
    /\ isTracing(dotFile)
    /\ step > 0

\* C5: in a run on a machine with an empty history and tracing enabled, once
\* n handlers have been invoked and the last returned a nil next handler, the
\* history holds n+1 transitions, the last on the edge into "end", and the
\* step counter is n+1.
C5_TransitionCount ==
    (InRun /\ isTracing(dotFile) /\ stepAtStart = 0 /\ Len(calls) > 0
        /\ LastCall.next = NilState) =>
        /\ step = Len(calls) + 1
        /\ TotalTransitions(adjacencyMap) = Len(calls) + 1
        /\ LatestOn(getFunctionName(LastCall.state), endID)
        /\ adjacencyMap[startID][getFunctionName(startArg)] = << 1 >>

C5_Witness ==
    /\ RunReturned
    /\ isTracing(dotFile)
    /\ stepAtStart = 0
    /\ Len(calls) = 2
    /\ LastCall.next = NilState
    /\ step = 3

\* C6: with tracing enabled, the steps of every edge are strictly increasing
\* and the steps of all edges together are exactly 1..step, none twice.
C6_StepsPartitionRange ==
    isTracing(dotFile) =>
        /\ \A v \in DOMAIN adjacencyMap : \A e \in DOMAIN adjacencyMap[v] :
              \A i \in 1..(Len(adjacencyMap[v][e]) - 1) :
                  adjacencyMap[v][e][i] < adjacencyMap[v][e][i + 1]
        /\ \A k \in 1..step :
              \E v \in DOMAIN adjacencyMap : \E e \in DOMAIN adjacencyMap[v] :
                  \E i \in 1..Len(adjacencyMap[v][e]) : adjacencyMap[v][e][i] = k
        /\ TotalTransitions(adjacencyMap) = step

C6_Witness ==
    /\ isTracing(dotFile)
    /\ step >= 3
    /\ \E p \in Edges(adjacencyMap) : Len(adjacencyMap[p[1]][p[2]]) >= 2

C8_FailingTransitionRecorded ==
    (InRun /\ isTracing(dotFile) /\ Len(calls) > 0 /\ LastCall.err # NoErr) =>
        LET vertex == getFunctionName(LastCall.state)
            edge == getFunctionName(LastCall.next)
        IN /\ LatestOn(vertex, edge)
           /\ (RunReturned /\ renderErr = NoErr) =>
                 Contains(sink, stateGraphString(vertex, edge,
                                                 adjacencyMap[vertex][edge]))

C8_Witness ==
    /\ RunReturned
    /\ isTracing(dotFile)
    /\ Len(calls) = 2
    /\ LastCall.err # NoErr
    /\ LastCall.next # NilState
    /\ renderErr = NoErr
    /\ LatestOn(getFunctionName(LastCall.state), getFunctionName(LastCall.next))

\* C9: when every handler of a run succeeded up to a terminal state and
\* rendering failed, Run returns the render failure, not nil.
C9_RenderFailureReturned ==
    (RunReturned /\ startArg # NilState /\ NoneFailed /\ renderErr # NoErr) =>
        (ret = renderErr /\ ret # NoErr)

C9_Witness ==
    /\ RunReturned
    /\ Len(calls) > 0
    /\ NoneFailed
    /\ LastCall.next = NilState
    /\ renderErr = ErrWrite
    /\ ret = ErrWrite
    /\ Len(sink) > Len(dotFileHeader)

\* The header is written at most once in a Run and first; the footer at most
\* once and last.
OneWriteSequence ==
    /\ sink # << >> => sink[1] = dotFileHeader[1]
    /\ \A i \in 2..Len(sink) : sink[i] # dotFileHeader[1]
    /\ \A i \in 1..(Len(sink) - 1) : sink[i] # dotFileFooter[1]

\* C10: within one Run nothing is written while the handler loop runs; the
\* writes are one sequence (header, edges, footer) and, once it has begun, no
\* handler is invoked and no transition recorded in that Run.
C10_WritesAfterLoop ==
    /\ [](pc \in { "loop", "header" } => sink = << >>)
    /\ []OneWriteSequence
    /\ [][(sink # << >> /\ runs' = runs) =>
             /\ calls' = calls
             /\ invoked' = invoked
             /\ step' = step
             /\ adjacencyMap' = adjacencyMap]_vars

C10_Witness ==
    /\ RunReturned
    /\ isTracing(dotFile)
    /\ Len(calls) = 2
    /\ renderErr = NoErr
    /\ Len(sink) > Len(dotFileHeader) + Len(dotFileFooter)
    /\ sink[Len(sink)] = dotFileFooter[1]

\* C11: the exporter starts disabled, becomes enabled only by a
\* LogStateTransitionGraph call that returns nil, and never becomes disabled
\* again; a LogStateTransitionGraph call whose create fails returns the
\* failure and leaves the exporter as it was.
C11_ExporterStates ==
    /\ dotFile = NilFile
    /\ [][/\ isTracing(dotFile) => isTracing(dotFile')
          /\ (~isTracing(dotFile) /\ isTracing(dotFile')) =>
                (pc = "idle" /\ runs' = runs
                    /\ lastCall' = "LogStateTransitionGraph" /\ ret' = NoErr)
          /\ (pc = "idle" /\ runs' = runs /\ ret' # NoErr) =>
                (ret' = ErrCreate /\ dotFile' = dotFile)]_vars

C11_Witness ==
    /\ isTracing(dotFile)
    /\ lastCall = "LogStateTransitionGraph"
    /\ ret = ErrCreate
    /\ step > 0

\* The decimal numbers of steps in order, a comma between two of them.
RECURSIVE CommaJoined(_)
CommaJoined(steps) ==
    IF Len(steps) = 0 THEN << >>
    ELSE IF Len(steps) = 1 THEN FormatInt(steps[1])
    ELSE CommaJoined(SubSeq(steps, 1, Len(steps) - 1))
            \o << "," >> \o FormatInt(steps[Len(steps)])

\* The edge line of (vertex, edge) in the history m, without its closing "]\n".
ExpectedLine(m, p) ==
    << "\t", p[1], " -> ", p[2], " [label=\" " >> \o CommaJoined(m[p[1]][p[2]])
        \o << "\",fontsize=", "1", "0" >>

\* The edge lines of a graph text g (header, lines, footer), each without its
\* closing "]\n", in the order written; the last piece is what follows the
\* last line.
GraphLines(g) ==
    Split(SubSeq(g, Len(dotFileHeader) + 1, Len(g) - Len(dotFileFooter)), "]\n")

\* g is the header, then exactly the lines of the set expected, each once,
\* then the footer.
WellFormedGraph(g, expected) ==
    /\ Len(g) >= Len(dotFileHeader) + Len(dotFileFooter)
    /\ SubSeq(g, 1, Len(dotFileHeader)) = dotFileHeader
    /\ SubSeq(g, Len(g) - Len(dotFileFooter) + 1, Len(g)) = dotFileFooter
    /\ LET lines == GraphLines(g)
       IN /\ lines[Len(lines)] = << >>
          /\ Len(lines) - 1 = Cardinality(expected)
          /\ { lines[i] : i \in 1..(Len(lines) - 1) } = expected

\* C12: a render that succeeds has written the header first, then one line
\* for every edge of the history and no other line, then the footer last; the
\* label of a line is the steps of its edge in recording order, joined by
\* commas with no trailing comma (so is what joinInt gives).
C12_RenderedGraph ==
    (RunReturned /\ startArg # NilState /\ isTracing(dotFile) /\ renderErr = NoErr) =>
        /\ WellFormedGraph(sink, { ExpectedLine(adjacencyMap, p) :
                                      p \in Edges(adjacencyMap) })
        /\ \A p \in Edges(adjacencyMap) :
              joinInt(adjacencyMap[p[1]][p[2]], ",")
                  = CommaJoined(adjacencyMap[p[1]][p[2]])

C12_Witness ==
    /\ RunReturned
    /\ startArg # NilState
    /\ isTracing(dotFile)
    /\ renderErr = NoErr
    /\ Cardinality(Edges(adjacencyMap)) >= 2
    /\ \E p \in Edges(adjacencyMap) : Len(adjacencyMap[p[1]][p[2]]) >= 2
    /\ Len(sink) > Len(dotFileHeader) + Len(dotFileFooter)

\* The index of the first footer in a text.
FirstFooter(g) ==
    CHOOSE i \in 1..Len(g) :
        g[i] = dotFileFooter[1] /\ \A j \in 1..(i - 1) : g[j] # dotFileFooter[1]

\* C13: two renders of the same history give the same text up to the order
\* of the edge lines: the same header and footer, as many lines, and the same
\* set of lines, so every edge has the same label in both.
C13_RenderTwiceSame ==
    (pc = "idle" /\ runs = 2 /\ renderErr = NoErr) =>
        LET k == FirstFooter(sink)
            g1 == SubSeq(sink, 1, k)
            g2 == SubSeq(sink, k + 1, Len(sink))
            l1 == GraphLines(g1)
            l2 == GraphLines(g2)
        IN /\ SubSeq(g1, 1, Len(dotFileHeader)) = SubSeq(g2, 1, Len(dotFileHeader))
           /\ g2 # << >> /\ g2[Len(g2)] = g1[Len(g1)]
           /\ Len(l1) = Len(l2)
           /\ { l1[i] : i \in 1..Len(l1) } = { l2[i] : i \in 1..Len(l2) }

\* Two renders that wrote the lines of three edges in different orders.
C13_Witness ==
    /\ pc = "idle"
    /\ runs = 2
    /\ renderErr = NoErr
    /\ Cardinality(Edges(adjacencyMap)) = 3
    /\ LET k == FirstFooter(sink)
       IN SubSeq(sink, 1, k) # SubSeq(sink, k + 1, Len(sink))

\* C14: when a write of the render fails, be it of the header, a line or the
\* footer, the render stops there and Run returns the write error; what was
\* written before stays in the file and nothing more is written in that Run.
C14_WriteFailureStopsRender ==
    /\ [][(pc \in { "header", "edges" } /\ renderErr' # NoErr) =>
             /\ pc' = "idle"
             /\ lastCall' = "Run"
             /\ renderErr' = ErrWrite
             /\ ret' = ErrWrite
             /\ Len(sink') >= Len(sink)
             /\ SubSeq(sink', 1, Len(sink)) = sink]_vars
    /\ [](renderErr # NoErr => pc = "idle")
    /\ [][(renderErr # NoErr /\ runs' = runs) =>
             \/ sink' = sink
             \/ (lastCall' = "LogStateTransitionGraph" /\ ret' = NoErr
                    /\ sink' = << >>)]_vars

C14_Witness ==
    /\ RunReturned
    /\ renderErr = ErrWrite
    /\ ret = ErrWrite
    /\ Len(sink) > Len(dotFileHeader)
    /\ LET written == Len(GraphLines(sink \o dotFileFooter)) - 1
       IN /\ written >= 1
          /\ written + 1 < Cardinality(Edges(adjacencyMap))

\* The list a is the beginning of the list b.
IsPrefix(a, b) == Len(a) <= Len(b) /\ SubSeq(b, 1, Len(a)) = a

\* C15: the step counter never decreases and no step, Run included, drops an
\* edge or a step number of the history; a Run on a tracing machine numbers
\* its start transition with the counter it found plus 1.
C15_StepNeverReset ==
    [][/\ step' >= step
       /\ \A p \in Edges(adjacencyMap) :
             /\ p \in Edges(adjacencyMap')
             /\ IsPrefix(adjacencyMap[p[1]][p[2]], adjacencyMap'[p[1]][p[2]])
       /\ (pc = "idle" /\ runs' = runs + 1 /\ startArg' # NilState
             /\ isTracing(dotFile)) =>
               LET name == getFunctionName(startArg')
               IN /\ step' = step + 1
                  /\ << startID, name >> \in Edges(adjacencyMap')
                  /\ adjacencyMap'[startID][name]
                        = (IF << startID, name >> \in Edges(adjacencyMap)
                           THEN adjacencyMap[startID][name] ELSE << >>)
                          \o << step + 1 >>]_vars

C15_Witness ==
    /\ pc = "loop"
    /\ runs = 2
    /\ isTracing(dotFile)
    /\ stepAtStart >= 2
    /\ step = stepAtStart + 1
    /\ Len(adjacencyMap[startID][getFunctionName(startArg)]) = 2

\* The steps of the edge p in the history m, none when the edge is absent.
StepsOf(m, p) == IF p \in Edges(m) THEN m[p[1]][p[2]] ELSE << >>

\* The step is a call of Run with a non-nil start handler / one iteration of
\* the loop of run(): the steps that record a transition.
IsRunStep == pc = "idle" /\ runs' = runs + 1 /\ startArg' # NilState
IsInvokeStep == pc = "loop" /\ invoked' = invoked + 1

\* C16: with tracing enabled, recording the transition (source, dest) adds 1
\* to the step counter and appends the new value to the steps of the edge
\* (source, dest), which it creates with its source when absent; the steps of
\* every other edge stay as they are.  Nothing else changes the counter.
C16_RecordOneTransition ==
    [][/\ (isTracing(dotFile) /\ (IsRunStep \/ IsInvokeStep)) =>
             LET p == IF IsRunStep
                      THEN << startID, getFunctionName(startArg') >>
                      ELSE << getFunctionName(currentState),
                              getFunctionName(nextState') >>
             IN /\ step' = step + 1
                /\ DOMAIN adjacencyMap' = (DOMAIN adjacencyMap) \cup { p[1] }
                /\ Edges(adjacencyMap') = Edges(adjacencyMap) \cup { p }
                /\ StepsOf(adjacencyMap', p)
                      = StepsOf(adjacencyMap, p) \o << step' >>
                /\ \A q \in Edges(adjacencyMap) \ { p } :
                      StepsOf(adjacencyMap', q) = StepsOf(adjacencyMap, q)
       /\ (step' # step \/ adjacencyMap' # adjacencyMap) =>
             (isTracing(dotFile) /\ (IsRunStep \/ IsInvokeStep))]_vars

C16_Witness ==
    /\ pc = "loop"
    /\ isTracing(dotFile)
    /\ Len(calls) = 1
    /\ LatestOn(getFunctionName(LastCall.state), getFunctionName(LastCall.next))
    /\ Len(adjacencyMap[getFunctionName(LastCall.state)]
                       [getFunctionName(LastCall.next)]) = 2
    /\ Cardinality(Edges(adjacencyMap)) >= 2

\* C17: every source of the history has a destination and every edge of the
\* history has a step: an edge is there only if it was traversed.
C17_NoEmptyEntries ==
    \A v \in DOMAIN adjacencyMap :
        /\ DOMAIN adjacencyMap[v] # {}
        /\ \A e \in DOMAIN adjacencyMap[v] :
              /\ adjacencyMap[v][e] # << >>
              /\ \A i \in 1..Len(adjacencyMap[v][e]) :
                    adjacencyMap[v][e][i] \in 1..step

\* A history with an edge into "end", which is never a source.
C17_Witness ==
    /\ Cardinality(DOMAIN adjacencyMap) >= 3
    /\ endID \notin DOMAIN adjacencyMap
    /\ \E v \in DOMAIN adjacencyMap : endID \in DOMAIN adjacencyMap[v]

\* The steps recorded by the current Run.
RunSteps == (stepAtStart + 1)..step

\* The history holds the step k on the edge (vertex, edge).
HoldsStep(vertex, edge, k) ==
    /\ vertex \in DOMAIN adjacencyMap
    /\ edge \in DOMAIN adjacencyMap[vertex]
    /\ \E i \in 1..Len(adjacencyMap[vertex][edge]) : adjacencyMap[vertex][edge][i] = k

\* C18: the transitions a run records, in step order, are one walk: the first
\* leaves "start" for the name of the start handler and every later one
\* leaves the destination of the one before; an edge traversed several times
\* (a self-loop too) holds one step for each traversal in its one list.
\* (By C6 no step is held twice.)
C18_RunIsWalk ==
    (InRun /\ isTracing(dotFile) /\ startArg # NilState) =>
        LET first == stepAtStart + 1
        IN /\ step = first + Len(calls)
           /\ HoldsStep(startID, NameOf[startArg], first)
           /\ \A i \in 1..Len(calls) :
                 /\ HoldsStep(NameOf[calls[i].state], NameOf[calls[i].next],
                              first + i)
                 /\ calls[i].state # NilState
                 /\ NameOf[calls[i].state] =
                       NameOf[IF i = 1 THEN startArg ELSE calls[i - 1].next]

\* The handler returns itself once, then nil: start->A:[1], A->A:[2],
\* A->end:[3].
C18_Witness ==
    /\ RunReturned
    /\ isTracing(dotFile)
    /\ stepAtStart = 0
    /\ Len(calls) = 2
    /\ calls[1].next = calls[1].state
    /\ calls[2].next = NilState
    /\ ret = NoErr
    /\ LET a == getFunctionName(startArg)
       IN adjacencyMap = MapPut(MapPut(EmptyMap, startID, MapPut(EmptyMap, a, << 1 >>)),
                            a, MapPut(MapPut(EmptyMap, a, << 2 >>), endID, << 3 >>))

\* The steps of the current Run that are transitions into "end".
EndSteps ==
    { k \in RunSteps : \E v \in DOMAIN adjacencyMap : HoldsStep(v, endID, k) }

ChainEnded ==
    Len(calls) > 0 /\ (LastCall.next = NilState \/ LastCall.err # NoErr)

\* C20: Run leaves its loop, and returns, only after a handler returned a nil
\* next handler or an error, and then it does return; while the chain has not
\* ended the loop cannot be left (the engine has no limit of its own), so a
\* chain that never ends keeps Run in the loop.
C20_ReturnsIffChainEnds ==
    /\ [][(pc = "loop" /\ pc' # "loop") => ChainEnded]_vars
    /\ [][(pc # "idle" /\ pc' = "idle") => (ChainEnded /\ lastCall' = "Run")]_vars
    /\ []((pc = "loop" /\ ~ChainEnded) => ~ENABLED ExitLoop)
    /\ (pc = "loop" /\ ChainEnded) ~> RunReturned

\* A chain that has not ended after two invocations: Run is still in its loop.
C20_Witness ==
    /\ pc = "loop"
    /\ Len(calls) = 2
    /\ ~ChainEnded
    /\ calls[2].state = calls[1].next
    /\ currentState # NilState

\* C21: recording does not influence execution.  A machine that may trace
\* and a machine that never traces, given the same Run calls and the same
\* results of the State functions, invoke the same State functions in the
\* same order, stop their loops together, and their Runs return the same
\* value whenever no write of the rendering failed.
C21_RecordingNoInfluence ==
    /\ twin.calls = calls
    /\ pc = "loop" =>
          /\ twin.pc = "loop"
          /\ twin.currentState = currentState
          /\ loopCond(twin.currentState, twin.err) <=> loopCond(currentState, err)
    /\ (RunReturned /\ renderErr = NoErr) =>
          /\ twin.pc = "idle"
          /\ twin.ret = ret

\* A tracing machine has recorded a run of two invocations that ended with an
\* error of the second State function and has rendered it; the other machine
\* has recorded nothing and both have returned that error.
C21_Witness ==
    /\ RunReturned
    /\ isTracing(dotFile)
    /\ renderErr = NoErr
    /\ Len(calls) = 2
    /\ twin.calls = calls
    /\ LastCall.err # NoErr
    /\ ret = LastCall.err
    /\ twin.ret = ret
    /\ step >= 3
    /\ twin.step = 0
    /\ twin.adjacencyMap = EmptyMap

\* No goroutine is inside recordStateTransition.
Quiet == \A g \in Goroutines : goroutines.of[g].pc \notin RecorderPcs

\* The step numbers of the history are 1..step, each held once.
StepsUnique ==
    /\ AllSteps(adjacencyMap) = 1..step
    /\ TotalTransitions(adjacencyMap) = step

\* Two transitions of the history hold the same step number.
RepeatedStep ==
    TotalTransitions(adjacencyMap) > Cardinality(AllSteps(adjacencyMap))

\* The history holds fewer transitions than recordStateTransition recorded.
LostStep == TotalTransitions(adjacencyMap) < goroutines.recorded

\* C22: the uniqueness of the step numbers rests on single-threaded use.
\* When two goroutines call Run on one machine, the step numbers of the
\* history are 1..step without a repeat, one for each recorded transition,
\* as long as no two executions of recordStateTransition have overlapped;
\* the witness is a history that overlapping executions left with a repeated
\* step number and with a recorded transition lost.
C22_UniqueUnlessInterleaved ==
    (Quiet /\ ~goroutines.overlapped) =>
        (StepsUnique /\ goroutines.recorded = step)

C22_Witness ==
    /\ Quiet
    /\ isTracing(dotFile)
    /\ goroutines.overlapped
    /\ \A g \in Goroutines : goroutines.of[g].pc \in { "invoke", "exit", "done" }
    /\ goroutines.recorded = 3
    /\ RepeatedStep
    /\ LostStep
    /\ ~StepsUnique

=============================================================================
